---- MODULE Spec2Model ----
(***************************************************************************)
(* Semantix AI front end (src/frontend/app/page.tsx): the Home component's *)
(* request lifecycle (analyzeProduct), its tab selection and the score     *)
(* bands of the Speedometer.                                               *)
(*                                                                         *)
(* A text is a sequence of characters.  A JSON value returned by the       *)
(* analysis service is a record in which every property carries the       *)
(* JavaScript type it has in the body ("undefined" when it is absent).     *)
(***************************************************************************)
EXTENDS Integers, Sequences, FiniteSets, TLC

VARIABLES
    originalText,    \* useState(''): the textarea's value
    analysisResult,  \* useState<GCOAnalysisResponse | null>(null)
    isLoading,       \* useState(false)
    activeTab,       \* useState<'facts' | 'scenarios' | 'faq'>('facts')
    pending,         \* the service calls awaited by analyzeProduct, in dispatch
                     \* order: the text sent, and whether fetch or
                     \* response.json() is being awaited
    errorLogged,     \* console.error('Error analyzing product:', ...) was called
    unhandled,       \* a promise returned by analyzeProduct was rejected
    crashed,         \* a render of Home threw: the component is gone
    outcome,         \* how the last settled request ended
    everSucceeded,   \* some request reached setAnalysisResult
    delivered,       \* the last value response.json() resolved with
    lastEvent,       \* the last handler or continuation that ran
    bypassed         \* analyzeProduct was invoked while the button was disabled

vars == <<originalText, analysisResult, isLoading, activeTab,
          pending, errorLogged, unhandled, crashed,
          outcome, everSucceeded, delivered, lastEvent, bypassed>>

\* What the model records about the run and the program does not store: how the
\* last settled request ended, whether any request succeeded, the last value
\* response.json() resolved with, the last handler that ran, and whether
\* analyzeProduct was ever invoked while the button was disabled.
history == <<outcome, everSucceeded, delivered, lastEvent, bypassed>>

\* The four useState cells of Home.
component == <<originalText, analysisResult, isLoading, activeTab>>

----------------------------------------------------------------------------
\* Bounds and sample inputs

\* Largest number of service calls outstanding at once when analyzeProduct is
\* invoked directly (the button alone never gets past one).
MaxOutstanding == 2

\* The score scale of the Speedometer ring: (score / 100) * 283.
MaxScore == 100

\* Texts the user can leave in the textarea.
Texts == { <<>>, <<" ">>, <<" ", " ">>, <<"a">>, <<" ", "a", " ">> }

Tabs == {"facts", "scenarios", "faq"}

----------------------------------------------------------------------------
\* String.prototype.trim on a sequence of characters

RECURSIVE TrimLeft(_)
TrimLeft(s) ==
    IF s = <<>> THEN s
    ELSE IF Head(s) = " " THEN TrimLeft(Tail(s)) ELSE s

RECURSIVE TrimRight(_)
TrimRight(s) ==
    IF s = <<>> THEN s
    ELSE IF s[Len(s)] = " " THEN TrimRight(SubSeq(s, 1, Len(s) - 1)) ELSE s

Trim(s) == TrimRight(TrimLeft(s))

----------------------------------------------------------------------------
\* JSON values (interface GCOAnalysisResponse and what a body can be instead)

Undefined == [t |-> "undefined", n |-> 0, items |-> <<>>]
Num(k) == [t |-> "number", n |-> k, items |-> <<>>]
Str(x) == [t |-> "string", n |-> 0, items |-> <<x>>]
Arr(xs) == [t |-> "array", n |-> 0, items |-> xs]

Json(score, summary, missing, structure, facts, scenarios, faq) ==
    [kind |-> "object",
     gco_score |-> score,
     analysis_summary |-> summary,
     missing_elements |-> missing,
     optimized_structure |-> structure,
     fact_table |-> facts,
     scenarios |-> scenarios,
     faq |-> faq]

\* The JavaScript value null: the initial analysisResult, and the JSON body `null`.
Null ==
    [kind |-> "null",
     gco_score |-> Undefined,
     analysis_summary |-> Undefined,
     missing_elements |-> Undefined,
     optimized_structure |-> Undefined,
     fact_table |-> Undefined,
     scenarios |-> Undefined,
     faq |-> Undefined]

Obj == [t |-> "object", n |-> 0, items |-> <<>>]

\* Two well-formed bodies per score: one with every sequence empty, one with
\* every sequence populated.
Plain(s) == Json(Num(s), Str("s1"), Arr(<<>>), Obj, Arr(<<>>), Arr(<<>>), Arr(<<>>))
Full(s) == Json(Num(s), Str("s2"), Arr(<<"price">>), Obj,
                Arr(<<"f1">>), Arr(<<"sc1">>), Arr(<<"q1">>))

\* The scores around the two thresholds and at the ends of the scale.
ScoreSamples == {0, 59, 60, 79, 80, MaxScore}

SampleWellFormed == {Plain(s) : s \in ScoreSamples} \cup {Full(s) : s \in {59, 80}}

WellFormedBodies == {Plain(s) : s \in 0..MaxScore} \cup {Full(s) : s \in {59, 80}}

\* Bodies that parse as JSON but are not a GCOAnalysisResponse.
BadScoreType == Json(Str("not-a-number"), Str("s1"), Arr(<<>>), Obj,
                     Arr(<<>>), Arr(<<>>), Arr(<<>>))
NoMissingElements == Json(Num(70), Str("s1"), Undefined, Obj,
                          Arr(<<>>), Arr(<<>>), Arr(<<>>))
NoFaq == Json(Num(70), Str("s1"), Arr(<<>>), Obj, Arr(<<>>), Arr(<<>>), Undefined)
ScoreTooHigh == Plain(MaxScore + 1)
ScoreTooLow == Plain(0 - 1)

MalformedBodies ==
    {Null, BadScoreType, NoMissingElements, NoFaq, ScoreTooHigh, ScoreTooLow}

\* What `await response.json()` can resolve to: with the sampled scores, and
\* with every score of the scale.
SampleBodies == SampleWellFormed \cup MalformedBodies
Bodies == WellFormedBodies \cup MalformedBodies

\* The declared shape of a response, with the score inside the scale.
Conforms(b) ==
    /\ b.kind = "object"
    /\ b.gco_score.t = "number" /\ b.gco_score.n \in 0..MaxScore
    /\ b.analysis_summary.t = "string"
    /\ b.missing_elements.t = "array"
    /\ b.optimized_structure.t = "object"
    /\ b.fact_table.t = "array"
    /\ b.scenarios.t = "array"
    /\ b.faq.t = "array"

\* JavaScript truthiness of analysisResult (`analysisResult ? ... : ...`).
Truthy(r) == r.kind = "object"

----------------------------------------------------------------------------
\* Speedometer: the three places that band the score

\* `score >= k` in JavaScript: false unless the operand is a number (NaN otherwise).
ScoreGE(v, k) == v.t = "number" /\ v.n >= k

getScoreColorExclusive(score) ==
    IF score.t = "number" /\ score.n > 80 THEN "text-green-400"
    ELSE IF score.t = "number" /\ score.n > 60 THEN "text-yellow-400"
    ELSE "text-red-400"

getScoreColor(score) ==
    IF ScoreGE(score, 80) THEN "text-green-400"
    ELSE IF ScoreGE(score, 60) THEN "text-yellow-400"
    ELSE "text-red-400"

strokeColorOwnThresholds(score) ==
    IF ScoreGE(score, 80) THEN "#10b981"
    ELSE IF ScoreGE(score, 70) THEN "#f59e0b"
    ELSE "#ef4444"

strokeColor(score) ==
    IF ScoreGE(score, 80) THEN "#10b981"
    ELSE IF ScoreGE(score, 60) THEN "#f59e0b"
    ELSE "#ef4444"

scoreLabel(score) ==
    IF ScoreGE(score, 80) THEN "Excellent AI Search Optimization"
    ELSE IF ScoreGE(score, 60) THEN "Good AI Search Optimization"
    ELSE "Needs Improvement"

----------------------------------------------------------------------------
\* Rendering

\* The JSX of Home throws a TypeError when it reads a property of undefined:
\* missing_elements.length, optimized_structure.<tab>, <sequence>.map.
RenderThrows(r, tab) ==
    /\ Truthy(r)
    /\ \/ r.missing_elements.t = "undefined"
       \/ r.optimized_structure.t = "undefined"
       \/ tab = "facts" /\ r.fact_table.t = "undefined"
       \/ tab = "scenarios" /\ r.scenarios.t = "undefined"
       \/ tab = "faq" /\ r.faq.t = "undefined"

\* The Speedometer and the tab panel are on screen.
ResultRendered == Truthy(analysisResult) /\ ~crashed

\* {analysisResult && ( <tab navigation and the active tab's view> )}
TabPanelRenderedUnlessLoading == Truthy(analysisResult) /\ ~isLoading /\ ~crashed
TabPanelRendered == Truthy(analysisResult) /\ ~crashed

\* {activeTab === 'facts' && ...} {activeTab === 'scenarios' && ...}
\* {activeTab === 'faq' && ...}: the views of the tab panel that are on screen.
ViewsRendered == {v \in Tabs : TabPanelRendered /\ activeTab = v}

\* disabled={isLoading || !originalText.trim()}
ButtonDisabledNoLoading == Trim(originalText) = <<>>
ButtonDisabled == isLoading \/ Trim(originalText) = <<>>

----------------------------------------------------------------------------
\* analyzeProduct

\* if (!originalText.trim()) return;
RejectsInputNoTrim == originalText = <<>>
RejectsInput == Trim(originalText) = <<>>

\* body: JSON.stringify({ original_text: originalText })
NewRequest == [original_text |-> originalText, stage |-> "fetch"]

Remove(q, i) == SubSeq(q, 1, i - 1) \o SubSeq(q, i + 1, Len(q))

analyzeProductNoLoadingFlag ==
    IF RejectsInput
    THEN UNCHANGED <<component, pending>>
    ELSE /\ pending' = Append(pending, NewRequest)
         /\ UNCHANGED <<originalText, analysisResult, isLoading, activeTab>>

analyzeProductResettingTab ==
    IF RejectsInput
    THEN UNCHANGED <<component, pending>>
    ELSE /\ isLoading' = TRUE
         /\ pending' = Append(pending, NewRequest)
         /\ activeTab' = "facts"
         /\ UNCHANGED <<originalText, analysisResult>>

\* The synchronous part of analyzeProduct, up to the first await:
\* setIsLoading(true) and the fetch call; no other state is set.
analyzeProduct ==
    IF RejectsInput
    THEN UNCHANGED <<component, pending>>
    ELSE /\ isLoading' = TRUE
         /\ pending' = Append(pending, NewRequest)
         /\ UNCHANGED <<originalText, analysisResult, activeTab>>

\* setAnalysisResult(data)
StoredOnSuccessMerged(prev, data) ==
    IF Truthy(prev) /\ Truthy(data)
    THEN [data EXCEPT !.missing_elements =
             IF data.missing_elements.items = <<>> THEN prev.missing_elements ELSE @]
    ELSE data
StoredOnSuccess(prev, data) == data

\* catch (error) { console.error(...) }: analysisResult is not touched.
StoredOnFailureCleared(prev) == Null
StoredOnFailureErrorObject(prev) ==
    Json(Undefined, Str("error"), Arr(<<>>), Obj, Arr(<<>>), Arr(<<>>), Arr(<<>>))
StoredOnFailure(prev) == prev

\* finally { setIsLoading(false) }
LoadingAfterSettleStuck == isLoading
LoadingAfterSettle == FALSE

\* What leaves the try block after a throw: the catch clause takes every error.
EscapesCatchNoCatch == TRUE
EscapesCatch == FALSE

FailWithRetry(i) ==
    /\ analysisResult' = StoredOnFailure(analysisResult)
    /\ isLoading' = LoadingAfterSettle
    /\ errorLogged' = (errorLogged \/ ~EscapesCatch)
    /\ unhandled' = (unhandled \/ EscapesCatch)
    /\ pending' = Append(Remove(pending, i), [pending[i] EXCEPT !.stage = "fetch"])
    /\ crashed' = RenderThrows(analysisResult', activeTab)
    /\ outcome' = "failed"
    /\ lastEvent' = "fail"
    /\ UNCHANGED <<originalText, activeTab, everSucceeded, delivered, bypassed>>

\* The request settles with a failure: catch, then finally.
Fail(i) ==
    /\ analysisResult' = StoredOnFailure(analysisResult)
    /\ isLoading' = LoadingAfterSettle
    /\ errorLogged' = (errorLogged \/ ~EscapesCatch)
    /\ unhandled' = (unhandled \/ EscapesCatch)
    /\ pending' = Remove(pending, i)
    /\ crashed' = RenderThrows(analysisResult', activeTab)
    /\ outcome' = "failed"
    /\ lastEvent' = "fail"
    /\ UNCHANGED <<originalText, activeTab, everSucceeded, delivered, bypassed>>

----------------------------------------------------------------------------
\* Events

setOriginalTextLivePayload(t) ==
    /\ ~crashed
    /\ originalText' = t
    /\ pending' = [i \in DOMAIN pending |-> [pending[i] EXCEPT !.original_text = t]]
    /\ lastEvent' = "edit"
    /\ UNCHANGED <<analysisResult, isLoading, activeTab, errorLogged,
                   unhandled, crashed, outcome, everSucceeded, delivered, bypassed>>

\* onChange={(e) => setOriginalText(e.target.value)}
setOriginalText(t) ==
    /\ ~crashed
    /\ originalText' = t
    /\ lastEvent' = "edit"
    /\ UNCHANGED <<analysisResult, isLoading, activeTab, pending, errorLogged,
                   unhandled, crashed, outcome, everSucceeded, delivered, bypassed>>

\* A click on the Analyze button; a disabled button delivers no click.
ClickAnalyze ==
    /\ ~crashed
    /\ ~ButtonDisabled
    /\ analyzeProduct
    /\ lastEvent' = "click"
    /\ UNCHANGED <<errorLogged, unhandled, crashed, outcome, everSucceeded,
                   delivered, bypassed>>

\* analyzeProduct invoked without the button's disabled guard.
CallAnalyzeProduct ==
    /\ ~crashed
    /\ RejectsInput \/ Len(pending) < MaxOutstanding
    /\ analyzeProduct
    /\ lastEvent' = "call"
    /\ bypassed' = (bypassed \/ ButtonDisabled)
    /\ UNCHANGED <<errorLogged, unhandled, crashed, outcome, everSucceeded, delivered>>

selectTabToggling(tab) ==
    /\ ResultRendered
    /\ activeTab' = (IF tab = activeTab THEN "facts" ELSE tab)
    /\ crashed' = RenderThrows(analysisResult, activeTab')
    /\ lastEvent' = "tab"
    /\ UNCHANGED <<originalText, analysisResult, isLoading, pending, errorLogged,
                   unhandled, outcome, everSucceeded, delivered, bypassed>>

selectTabMistypedId(tab) ==
    /\ ResultRendered
    /\ activeTab' = (IF tab = "faq" THEN "qa" ELSE tab)
    /\ crashed' = RenderThrows(analysisResult, activeTab')
    /\ lastEvent' = "tab"
    /\ UNCHANGED <<originalText, analysisResult, isLoading, pending, errorLogged,
                   unhandled, outcome, everSucceeded, delivered, bypassed>>

\* onClick={() => setActiveTab(tab.id)}: the tab buttons exist only with a result.
selectTab(tab) ==
    /\ ResultRendered
    /\ activeTab' = tab
    /\ crashed' = RenderThrows(analysisResult, tab)
    /\ lastEvent' = "tab"
    /\ UNCHANGED <<originalText, analysisResult, isLoading, pending, errorLogged,
                   unhandled, outcome, everSucceeded, delivered, bypassed>>

\* fetch rejects: network error.
FetchRejects(i) ==
    /\ ~crashed
    /\ pending[i].stage = "fetch"
    /\ Fail(i)

\* fetch resolves with a response; !response.ok throws.
FetchResolves(i, ok) ==
    /\ ~crashed
    /\ pending[i].stage = "fetch"
    /\ IF ok
       THEN /\ pending' = [pending EXCEPT ![i].stage = "json"]
            /\ lastEvent' = "response"
            /\ UNCHANGED <<component, errorLogged, unhandled, crashed, outcome,
                           everSucceeded, delivered, bypassed>>
       ELSE Fail(i)

\* response.json() rejects: the body is not JSON.
JsonRejects(i) ==
    /\ ~crashed
    /\ pending[i].stage = "json"
    /\ Fail(i)

\* response.json() resolves with data: setAnalysisResult(data), then finally.
JsonResolves(i, data) ==
    /\ ~crashed
    /\ pending[i].stage = "json"
    /\ analysisResult' = StoredOnSuccess(analysisResult, data)
    /\ isLoading' = LoadingAfterSettle
    /\ pending' = Remove(pending, i)
    /\ crashed' = RenderThrows(analysisResult', activeTab)
    /\ outcome' = "ok"
    /\ everSucceeded' = TRUE
    /\ delivered' = data
    /\ lastEvent' = "success"
    /\ UNCHANGED <<originalText, activeTab, errorLogged, unhandled, bypassed>>

----------------------------------------------------------------------------
\* Specifications

Init ==
    /\ originalText = <<>>
    /\ analysisResult = Null
    /\ isLoading = FALSE
    /\ activeTab = "facts"
    /\ pending = <<>>
    /\ errorLogged = FALSE
    /\ unhandled = FALSE
    /\ crashed = FALSE
    /\ outcome = "none"
    /\ everSucceeded = FALSE
    /\ delivered = Null
    /\ lastEvent = "init"
    /\ bypassed = FALSE

\* The analysis service answers an outstanding call, short of a parsed body.
Transport ==
    \/ \E i \in 1..Len(pending) : FetchRejects(i)
    \/ \E i \in 1..Len(pending), ok \in BOOLEAN : FetchResolves(i, ok)
    \/ \E i \in 1..Len(pending) : JsonRejects(i)

UserEvent ==
    \/ \E t \in Texts : setOriginalText(t)
    \/ ClickAnalyze
    \/ \E tab \in Tabs : selectTab(tab)

\* The page as the browser runs it: every submit goes through the button.
Next ==
    \/ UserEvent
    \/ Transport
    \/ \E i \in 1..Len(pending), data \in SampleBodies : JsonResolves(i, data)

Spec == Init /\ [][Next]_vars

\* The same page with the service returning every score of the scale.
NextAllScores ==
    \/ UserEvent
    \/ Transport
    \/ \E i \in 1..Len(pending), data \in Bodies : JsonResolves(i, data)

SpecAllScores == Init /\ [][NextAllScores]_vars

\* The controller on its own: analyzeProduct can also be invoked directly.
NextDirect == Next \/ CallAnalyzeProduct

SpecDirect == Init /\ [][NextDirect]_vars

\* The request phase the component's state stands for.
RequestPhase ==
    IF isLoading THEN "in_flight"
    ELSE CASE outcome = "none" -> "idle"
           [] outcome = "ok" -> "succeeded"
           [] OTHER -> "failed"

TypeOK ==
    /\ originalText \in Texts
    /\ analysisResult \in Bodies
    /\ isLoading \in BOOLEAN
    /\ activeTab \in Tabs
    /\ Len(pending) <= MaxOutstanding
    /\ outcome \in {"none", "ok", "failed"}
    /\ everSucceeded \in BOOLEAN
    /\ delivered \in Bodies

----------------------------------------------------------------------------
\* Steps of a behaviour, told by what they do to the outstanding calls

\* An outstanding call settles (its promise chain reaches finally).
Settles == Len(pending') < Len(pending)

\* A settling that went through the catch clause, and one that did not.
SettlesFailing == Settles /\ lastEvent' = "fail"
SettlesSucceeding == Settles /\ lastEvent' = "success"

\* A call is dispatched.
Dispatches == Len(pending') > Len(pending)

\* The component states in which nothing was ever submitted: any text typed, no
\* result, not loading, and the tab still on facts (no tab button exists yet).
IdleComponents == {<<t, Null, FALSE, "facts">> : t \in Texts}

----------------------------------------------------------------------------
\* C1

\* C1 as stated: once the last request has failed, no analysis result is
\* stored or rendered, also when an earlier request had succeeded.
C1_NoResultAfterFailure ==
    RequestPhase = "failed" => ~Truthy(analysisResult)

\* C1 amended: a failing request ends loading and leaves the stored result
\* exactly as it was, so a result stored by an earlier success stays stored
\* (and rendered) after the failure; no result is exposed after a failure only
\* when none was stored before it.
C1_FailureKeepsResult ==
    [][SettlesFailing => /\ analysisResult' = analysisResult
                         /\ ~isLoading'
                         /\ RequestPhase' = "failed"]_vars

\* A failure after an earlier success, with the earlier result still on screen.
C1_Witness ==
    /\ lastEvent = "fail"
    /\ RequestPhase = "failed"
    /\ ResultRendered
    /\ Conforms(analysisResult)

----------------------------------------------------------------------------
\* C2

\* C2 as stated: a result is stored if and only if the phase is succeeded.
C2_ResultIffSucceeded ==
    Truthy(analysisResult) <=> RequestPhase = "succeeded"

\* C2 amended: a result is stored only if some request has succeeded so far,
\* so none is stored while idle, during the first flight or after failures
\* alone; once the last parsed body is an object a result stays stored, through
\* later in-flight and failed phases too.
C2_ResultOnlyAfterSuccess ==
    /\ Truthy(analysisResult) => everSucceeded
    /\ RequestPhase = "idle" => analysisResult = Null
    /\ Truthy(delivered) => Truthy(analysisResult)

\* A result is stored while a later request is in flight.
C2_Witness ==
    /\ RequestPhase = "in_flight"
    /\ Truthy(analysisResult)
    /\ everSucceeded

----------------------------------------------------------------------------
\* C3

\* C3 as stated: at most one call to the service is outstanding, also when
\* analyzeProduct is invoked past the disabled button.
C3_AtMostOneOutstanding ==
    Len(pending) <= 1

\* C3 amended: analyzeProduct has no in-flight guard of its own; the only guard
\* is the button's disabled attribute.  As long as analyzeProduct was never
\* invoked while the button was disabled, at most one call is outstanding and
\* the loading flag is set while it is.
C3_OneOutstandingThroughButton ==
    ~bypassed => /\ Len(pending) <= 1
                 /\ (pending # <<>> => isLoading)

\* A request in flight with the button disabled and never bypassed.
C3_Witness ==
    /\ ~bypassed
    /\ lastEvent = "click"
    /\ Len(pending) = 1
    /\ ButtonDisabled

----------------------------------------------------------------------------
\* C4

\* C4 as stated: a body that does not conform to the response shape is never
\* stored as the analysis result: whatever is stored conforms.
C4_NonconformingNeverStored ==
    analysisResult = Null \/ Conforms(analysisResult)

----------------------------------------------------------------------------
\* C5

\* C5: an invocation of analyzeProduct with text that is blank after trim
\* changes none of the four state cells and dispatches no call.
C5_BlankSubmitNoOp ==
    [][(lastEvent' = "call" /\ Trim(originalText) = <<>>)
          => UNCHANGED <<originalText, analysisResult, isLoading, activeTab, pending>>]_vars

\* A whitespace-only text was submitted while a result was stored and nothing
\* was in flight.
C5_Witness ==
    /\ lastEvent = "call"
    /\ originalText = <<" ", " ">>
    /\ ~isLoading
    /\ pending = <<>>
    /\ Truthy(analysisResult)

----------------------------------------------------------------------------
\* C6

\* C6 as stated: from the moment an accepted submit starts its request, and
\* when that request has succeeded, the active tab is facts.
C6_SubmitResetsTab ==
    lastEvent \in {"click", "success"} => activeTab = "facts"

\* C6 amended: submitting does not reset the active tab: an accepted submit
\* and every step of its request (response, success, failure) leave the active
\* tab as it was, so it is facts afterwards only if it was facts before.
C6_SubmitKeepsTab ==
    [][(Dispatches \/ Settles \/ lastEvent' = "response")
          => activeTab' = activeTab]_vars

\* A request submitted with the scenarios tab active has succeeded and the
\* scenarios tab is still active.
C6_Witness ==
    /\ lastEvent = "success"
    /\ activeTab = "scenarios"
    /\ ResultRendered

----------------------------------------------------------------------------
\* C7

\* C7: the stored result is always the value the last successful
\* response.json() resolved with (null before any): no other step writes it,
\* and the write replaces the previous result wholesale.
C7_ResultIsLastPayload ==
    analysisResult = delivered

\* A success that replaced an earlier result (the scenarios tab was selected
\* on it) with a body whose sequences are all empty.
C7_Witness ==
    /\ lastEvent = "success"
    /\ activeTab = "scenarios"
    /\ analysisResult = Plain(59)

----------------------------------------------------------------------------
\* C8

\* C8 as stated: after a first request has failed, the component's state
\* differs from every state in which nothing was ever submitted.
C8_FailureDistinguishable ==
    (outcome = "failed" /\ ~everSucceeded /\ ~isLoading)
        => component \notin IdleComponents

\* C8 amended: a failure leaves no trace in the component's state: after a
\* first request has failed the four state cells are those of a state in which
\* nothing was submitted; the failure is recorded only as console.error output.
C8_FailureOnlyLogged ==
    (outcome = "failed" /\ ~everSucceeded /\ ~isLoading)
        => (component \in IdleComponents /\ errorLogged)

\* The first request has failed.
C8_Witness ==
    /\ lastEvent = "fail"
    /\ ~everSucceeded
    /\ ~isLoading
    /\ originalText = <<"a">>

----------------------------------------------------------------------------
\* C9

\* C9: whenever an outstanding call settles, by network error, non-2xx
\* response, unparsable body or success, the loading flag is false afterwards
\* and no error has left analyzeProduct uncaught.
C9_SettlingEndsLoading ==
    [][Settles => (~isLoading' /\ ~unhandled')]_vars

\* A request has failed: loading is over and the error went to the console.
C9_Witness ==
    /\ lastEvent = "fail"
    /\ ~isLoading
    /\ pending = <<>>
    /\ errorLogged
    /\ ~unhandled

----------------------------------------------------------------------------
\* C10

\* The band each of the three renderings stands for.
BandOfTextColor(c) ==
    CASE c = "text-green-400" -> "high"
      [] c = "text-yellow-400" -> "medium"
      [] c = "text-red-400" -> "low"

BandOfStroke(c) ==
    CASE c = "#10b981" -> "high"
      [] c = "#f59e0b" -> "medium"
      [] c = "#ef4444" -> "low"

BandOfLabel(l) ==
    CASE l = "Excellent AI Search Optimization" -> "high"
      [] l = "Good AI Search Optimization" -> "medium"
      [] l = "Needs Improvement" -> "low"

\* C10: whenever a result with an integer score in [0,100] is rendered, the
\* text colour, the ring stroke and the label stand for the same band.
C10_BandsAgree ==
    (ResultRendered /\ analysisResult.gco_score.t = "number"
                    /\ analysisResult.gco_score.n \in 0..MaxScore)
        => /\ BandOfTextColor(getScoreColor(analysisResult.gco_score))
                = BandOfStroke(strokeColor(analysisResult.gco_score))
           /\ BandOfTextColor(getScoreColor(analysisResult.gco_score))
                = BandOfLabel(scoreLabel(analysisResult.gco_score))

\* A score that is neither sampled nor on a threshold is rendered, in the
\* medium band.
C10_Witness ==
    /\ ResultRendered
    /\ analysisResult.gco_score = Num(67)
    /\ BandOfLabel(scoreLabel(analysisResult.gco_score)) = "medium"

----------------------------------------------------------------------------
\* C11

\* The band the claim assigns to an integer score of the scale.
StatedBand(n) ==
    IF n \in 80..MaxScore THEN "high"
    ELSE IF n \in 60..79 THEN "medium"
    ELSE "low"

\* C11: for every rendered integer score in [0,100], getScoreColor yields one
\* of the three colour classes, green from 80 up, yellow from 60 to 79 and red
\* below 60, the boundaries 80 and 60 belonging to the higher band.
C11_ScoreColorBands ==
    (ResultRendered /\ analysisResult.gco_score.t = "number"
                    /\ analysisResult.gco_score.n \in 0..MaxScore)
        => /\ getScoreColor(analysisResult.gco_score)
                \in {"text-green-400", "text-yellow-400", "text-red-400"}
           /\ BandOfTextColor(getScoreColor(analysisResult.gco_score))
                = StatedBand(analysisResult.gco_score.n)

\* The boundary score 60 is rendered in yellow.
C11_Witness ==
    /\ ResultRendered
    /\ analysisResult.gco_score = Num(60)
    /\ getScoreColor(analysisResult.gco_score) = "text-yellow-400"

----------------------------------------------------------------------------
\* C12

\* C12 as stated: a tab selection always succeeds and changes only the active
\* tab: the request phase, the loading flag, the stored result and the
\* outstanding calls are as before, and the page is still rendered.
C12_SelectTabPureAndSucceeds ==
    [][lastEvent' = "tab"
          => /\ UNCHANGED <<analysisResult, isLoading, pending>>
             /\ RequestPhase' = RequestPhase
             /\ ~crashed']_vars

----------------------------------------------------------------------------
\* C13

\* C13 as stated: the tab views are rendered only in the succeeded phase.
C13_TabsOnlyWhenSucceeded ==
    TabPanelRendered => RequestPhase = "succeeded"

\* C13 amended: the tab views are rendered exactly while a result is stored:
\* never before some request has succeeded (not while idle, during the first
\* flight or after failures alone), and, once the last parsed body is an
\* object, in every phase, a resubmission in flight and a later failure
\* included, as long as the page renders.
C13_TabsWhileResultStored ==
    /\ TabPanelRendered => (everSucceeded /\ Truthy(analysisResult))
    /\ RequestPhase = "idle" => ~TabPanelRendered
    /\ (Truthy(delivered) /\ ~crashed) => TabPanelRendered

\* The Q&A view is on screen after a request that followed a success has failed.
C13_Witness ==
    /\ TabPanelRendered
    /\ RequestPhase = "failed"
    /\ activeTab = "faq"

----------------------------------------------------------------------------
\* C14

\* An invocation of analyzeProduct with text that is not blank after trim.
AcceptedSubmit ==
    /\ lastEvent' \in {"click", "call"}
    /\ Trim(originalText) # <<>>
    /\ vars' # vars

\* C14: an accepted submit sets the loading flag and dispatches exactly one
\* call, carrying the text as it stands in the textarea; no other step
\* dispatches a call, and a settling step, failing or not, takes its call off
\* the outstanding ones and adds none (no retry).  Step by step, the calls
\* dispatched are as many as the accepted submits.
C14_OneCallPerSubmit ==
    [][/\ AcceptedSubmit
            => /\ isLoading'
               /\ pending' = Append(pending, [original_text |-> originalText,
                                              stage |-> "fetch"])
       /\ (~AcceptedSubmit /\ vars' # vars) => Len(pending') <= Len(pending)
       /\ (lastEvent' \in {"fail", "success"} /\ vars' # vars)
            => Len(pending') = Len(pending) - 1]_vars

\* After an earlier failure, a click has dispatched one call carrying the
\* untrimmed text.
C14_Witness ==
    /\ lastEvent = "click"
    /\ errorLogged
    /\ isLoading
    /\ pending = <<[original_text |-> <<" ", "a", " ">>, stage |-> "fetch"]>>

----------------------------------------------------------------------------
\* C15

\* C15: the active tab is always one of facts, scenarios and faq, and it is
\* facts until a result has been stored; whenever the tab panel is on screen,
\* each of the three tabs can be made the active one by a single selection,
\* whichever tab is active, and exactly one of the three views is rendered.
C15_TabStateMachine ==
    /\ activeTab \in Tabs
    /\ ~everSucceeded => activeTab = "facts"
    /\ TabPanelRendered
         => /\ \A t \in Tabs : ENABLED (selectTab(t) /\ activeTab' = t)
            /\ Cardinality(ViewsRendered) = 1

\* The scenarios view, and only it, is on screen after a selection.
C15_Witness ==
    /\ lastEvent = "tab"
    /\ ViewsRendered = {"scenarios"}

----------------------------------------------------------------------------
\* C16

\* C16: whenever the tab panel is on screen, selecting the tab that is already
\* active leaves the four state cells, the outstanding calls, the console and
\* the rendering as they are; so a second selection of the same tab, made in
\* the state the first one produced, changes nothing.
C16_SelectTabIdempotent ==
    TabPanelRendered
        => ENABLED (/\ selectTab(activeTab)
                    /\ UNCHANGED <<originalText, analysisResult, isLoading, activeTab,
                                   pending, errorLogged, unhandled, crashed>>)

\* The facts tab has been selected while a request was in flight.
C16_Witness ==
    /\ lastEvent = "tab"
    /\ activeTab = "facts"
    /\ isLoading
    /\ TabPanelRendered

----------------------------------------------------------------------------
\* C17

\* C17: with every submit going through the button, the call that settles is
\* always the only one outstanding, hence the most recently submitted one, no
\* older call is left to settle after it, and on success the stored result
\* becomes the body of that call's response.
C17_NoStaleOverwrite ==
    [][Settles => /\ Len(pending) = 1
                  /\ pending' = <<>>
                  /\ (lastEvent' = "success" => analysisResult' = delivered')]_vars

\* A later request's body is stored after an earlier request had failed.
C17_Witness ==
    /\ lastEvent = "success"
    /\ errorLogged
    /\ pending = <<>>
    /\ analysisResult = Full(80)

----------------------------------------------------------------------------
\* C18

\* C18: with every submit going through the button, the loading flag is set
\* in exactly the states in which a call is outstanding, and never more than
\* one call is.
C18_LoadingIffOutstanding ==
    /\ Len(pending) <= 1
    /\ isLoading <=> Len(pending) = 1

\* The flag is set while the body of the response is awaited.
C18_Witness ==
    /\ isLoading
    /\ Len(pending) = 1
    /\ pending[1].stage = "json"

----------------------------------------------------------------------------
\* C19

\* C19: an edit of the textarea, also while a request is in flight, changes
\* the input text only: the outstanding calls with their original_text, the
\* loading flag, the stored result and the active tab are as before; and as
\* long as a call is outstanding its original_text is the text it was
\* dispatched with, whatever step is taken.
C19_EditLeavesRequestAlone ==
    [][/\ lastEvent' = "edit"
            => UNCHANGED <<pending, isLoading, analysisResult, activeTab>>
       /\ Len(pending') = Len(pending)
            => \A i \in 1..Len(pending) :
                   pending'[i].original_text = pending[i].original_text]_vars

\* The textarea was emptied while the request carrying "a" is in flight.
C19_Witness ==
    /\ lastEvent = "edit"
    /\ originalText = <<>>
    /\ isLoading
    /\ Len(pending) = 1
    /\ pending[1].original_text = <<"a">>

====
